---- MODULE Spec2Model ----
(***************************************************************************)
(* Model of scripts/fetch_data.py: the backup / fetch / restore / detect / *)
(* persist pipeline run by main().                                         *)
(*                                                                         *)
(* The dataset directory holds the three source files and data-state.json. *)
(* A file's contents are an abstract value: Absent (no such file), Trunc   *)
(* (the file as a failed write leaves it) or an upstream content 1..N.     *)
(***************************************************************************)
EXTENDS Integers, Sequences, FiniteSets, TLC

\* ---- bounds --------------------------------------------------------------
MaxContent == 2      \* distinct upstream contents per source
MaxRuns == 3         \* number of invocations of main() explored
MaxLinks == 2        \* .xlsx links found on a scraped page: 0..MaxLinks
MaxEnv == 1          \* changes made from outside the pipeline (upstream, directory)
MaxFaults == 2       \* failed requests, page checks and file writes over all runs

\* ---- configuration (fetch_data.py:16-26) -----------------------------------
SourceOrder == <<"socrata_90th", "dsmi", "lslr">>

Sources == {SourceOrder[i] : i \in 1..Len(SourceOrder)}

DATA_FILES ==
    [k \in Sources |->
        CASE k = "socrata_90th" -> "socrata-90th-percentile.json"
          [] k = "dsmi" -> "DSMI-Service-Line-Materials-Estimates.xlsx"
          [] k = "lslr" -> "2024-2025-LSLR-Data.xlsx"]

SOURCE_NAMES ==
    [k \in Sources |->
        CASE k = "socrata_90th" -> "Socrata 90th Percentile API"
          [] k = "dsmi" -> "DSMI Service Line Materials"
          [] k = "lslr" -> "Lead & Copper Rule (LSLR)"]

\* ---- file contents ---------------------------------------------------------
Absent == -1
Trunc == 0
Contents == 1..MaxContent
FileVals == {Absent, Trunc} \cup Contents

\* two invocations of main() share the directories; Spec runs only the first
Procs == {1, 2}

VARIABLES
    data,          \* DATA_DIR: source key -> contents of its target file
    stateFile,     \* DATA_DIR/data-state.json
    backup,        \* DATA_BACKUP_DIR
    upstream,      \* what each source serves at the moment
    clock,         \* number of runs started; stands for datetime.now()
    pc,            \* per run: position in main()
    fetch_errors,  \* per run: main's local list
    current_state, \* per run: main's local
    changes,       \* per run: main's local
    exit_code,     \* per run: process exit status, -1 while running
    crash,         \* per run: where an uncaught exception ended the run
    pre,           \* per run: the dataset directory as it was when the run began
    wrote,         \* per run: sources whose target file this run's fetch opened for writing
    steps,         \* per run: the steps of main() performed so far, in order
    lastFetch,     \* per run: what the fetch just performed did
    quiet,         \* runs started since upstream or the directory last changed from outside
    envSteps,      \* changes made from outside so far
    faults,        \* requests, page checks and writes that have failed so far
    oldBackup,     \* per run: the backup backup_data() found, until the first fetch
    overlap,       \* per run: another run was in progress at some point of this one
    lastEnd,       \* how the run that ended last ended: done, or where it was killed
    dirTouched,    \* the dataset directory has been changed from outside the pipeline
    pending        \* sources whose new upstream content the last restore rolled back

vars == <<data, stateFile, backup, upstream, clock, pc, fetch_errors,
          current_state, changes, exit_code, crash, pre, wrote,
          steps, lastFetch, quiet, envSteps, faults, oldBackup, overlap,
          lastEnd, dirTouched, pending>>

\* ---- Hasher (fetch_data.py:29-32) -------------------------------------------
\* md5 of the contents, taken as injective on the contents the model uses
\* (3, 10, 6, 2, 9, ... for 0, 1, 2, 3, 4, ...)
get_file_hash(c) == (c * 7 + 3) % 11

\* ---- StateStore --------------------------------------------------------------
NoStateFile == [kind |-> "absent"]
CorruptStateFile == [kind |-> "corrupt"]

\* load_data_state: {} when the file is missing; json.load raises on a file
\* that does not parse (only FileNotFoundError is handled)
load_data_state(sf) ==
    IF sf.kind = "absent" THEN [raised |-> FALSE, sources |-> [k \in {} |-> 0]]
    ELSE IF sf.kind = "corrupt" THEN [raised |-> TRUE, sources |-> [k \in {} |-> 0]]
    ELSE [raised |-> FALSE, sources |-> sf.sources]

\* ---- BackupManager -------------------------------------------------------------
NoBackup == [kind |-> "none"]

\* a backup that copies over the old one without removing it first
backup_data_Merge(b, d, sf) ==
    IF b.kind = "none" THEN [kind |-> "dir", files |-> d, state |-> sf]
    ELSE [kind |-> "dir",
          files |-> [k \in Sources |-> IF d[k] # Absent THEN d[k] ELSE b.files[k]],
          state |-> IF sf.kind # "absent" THEN sf ELSE b.state]

\* backup_data: rmtree the old backup b, copytree DATA_DIR
backup_data(b, d, sf) == [kind |-> "dir", files |-> d, state |-> sf]

\* a restore that copies nothing back
restoredFiles_Nothing(b, d) == d

\* a restore that copies back only the files missing from the directory
restoredFiles_OnlyMissing(b, d) ==
    IF b.kind = "none" THEN d
    ELSE [k \in Sources |-> IF d[k] = Absent THEN b.files[k] ELSE d[k]]

\* a restore that replaces the directory by the backup, new files removed
restoredFiles_Replace(b, d) == IF b.kind = "none" THEN d ELSE b.files

\* restore_from_backup: copy every file of the backup over the live one
restoredFiles(b, d) ==
    IF b.kind = "none" THEN d
    ELSE [k \in Sources |-> IF b.files[k] # Absent THEN b.files[k] ELSE d[k]]

restoredState(b, sf) ==
    IF b.kind = "none" THEN sf
    ELSE IF b.state.kind # "absent" THEN b.state ELSE sf

\* a clear that leaves the directory in place
clear_backup_Kept(b) == b

\* clear_backup
clear_backup(b) == NoBackup

\* ---- ChangeDetector (fetch_data.py:75-106) -------------------------------------
\* a record that carries a hash and a file name for a missing file too
SourceRecord_AlwaysHash(d, k) ==
    [exists |-> d[k] # Absent,
     content_hash |-> IF d[k] = Absent THEN get_file_hash(Trunc) ELSE get_file_hash(d[k]),
     file |-> DATA_FILES[k]]

SourceRecord(d, k) ==
    IF d[k] = Absent THEN [exists |-> FALSE]
    ELSE [exists |-> TRUE, content_hash |-> get_file_hash(d[k]), file |-> DATA_FILES[k]]

ChangeEvent(k) ==
    [source |-> SOURCE_NAMES[k], type |-> "Data content changed", file |-> DATA_FILES[k]]

\* a detector that also reports a file with no previous hash
HashChanged_NewFile(prevSources, d, k) ==
    /\ d[k] # Absent
    /\ \/ k \notin DOMAIN prevSources
       \/ "content_hash" \notin DOMAIN prevSources[k]
       \/ prevSources[k].content_hash # get_file_hash(d[k])

\* prev_source.get("content_hash") and prev_source["content_hash"] != content_hash
HashChanged(prevSources, d, k) ==
    /\ d[k] # Absent
    /\ k \in DOMAIN prevSources
    /\ "content_hash" \in DOMAIN prevSources[k]
    /\ prevSources[k].content_hash # get_file_hash(d[k])

RECURSIVE ChangesFrom(_, _, _)
ChangesFrom(prevSources, d, i) ==
    IF i > Len(SourceOrder) THEN <<>>
    ELSE (IF HashChanged(prevSources, d, SourceOrder[i])
          THEN <<ChangeEvent(SourceOrder[i])>> ELSE <<>>)
         \o ChangesFrom(prevSources, d, i + 1)

\* a detector that carries a source's previous record forward instead of
\* hashing the file again
detect_data_changes_KeepPrev(prevSources, d, now) ==
    [current_state |->
        [sources |-> [k \in Sources |->
                         IF HashChanged(prevSources, d, k) THEN prevSources[k]
                         ELSE SourceRecord(d, k)],
         last_check |-> now],
     changes |-> ChangesFrom(prevSources, d, 1)]

detect_data_changes(prevSources, d, now) ==
    [current_state |-> [sources |-> [k \in Sources |-> SourceRecord(d, k)],
                        last_check |-> now],
     changes |-> ChangesFrom(prevSources, d, 1)]

\* ---- SourceFetcher ---------------------------------------------------------------
\* what one HTTP request can do: succeed, time out or connect-fail
\* (requests.Timeout), or come back with a non-success status, which
\* raise_for_status turns into requests.HTTPError
NetOutcomes == {"ok", "Timeout", "HTTPError"}

\* the Socrata responses are also decoded with .json()
JsonOutcomes == NetOutcomes \cup {"JSONDecodeError"}

\* what `with open(path, "w") as f: f.write(...)` can do: succeed, raise OSError
\* in open() (the file is untouched), or raise OSError while writing (the file
\* was truncated by open and holds a partial body)
WriteOutcomes == {"ok", "OSError_open", "OSError_write"}

IsRequestException(e) == e \in {"Timeout", "HTTPError"}

\* json.JSONDecodeError is a subclass of ValueError
IsValueError(e) == e \in {"ValueError_no_link", "ValueError_multiple_links", "JSONDecodeError"}

IsOSError(e) == e \in {"OSError_open", "OSError_write"}

\* the write at the end of a fetch: the new contents of the target file
WriteFile(old, body, wr) ==
    CASE wr = "ok" -> body
      [] wr = "OSError_open" -> old
      [] wr = "OSError_write" -> Trunc

\* fetch_socrata_api (fetch_data.py:109-124) followed by the write in main
\* (fetch_data.py:215-219): count query, data request, json.dump to the file
\* a fetch that opens the target file before it requests the data
fetch_socrata_api_OpenFirst(count, dat, wr, old, body) ==
    IF count # "ok" THEN
        [exc |-> count, requests |-> 1, links |-> -1, opened |-> FALSE, file |-> old]
    ELSE IF dat # "ok" THEN
        [exc |-> dat, requests |-> 2, links |-> -1, opened |-> TRUE, file |-> Trunc]
    ELSE
        [exc |-> IF wr = "ok" THEN "none" ELSE wr, requests |-> 2, links |-> -1,
         opened |-> TRUE, file |-> WriteFile(old, body, wr)]

fetch_socrata_api(count, dat, wr, old, body) ==
    IF count # "ok" THEN
        [exc |-> count, requests |-> 1, links |-> -1, opened |-> FALSE, file |-> old]
    ELSE IF dat # "ok" THEN
        [exc |-> dat, requests |-> 2, links |-> -1, opened |-> FALSE, file |-> old]
    ELSE
        [exc |-> IF wr = "ok" THEN "none" ELSE wr, requests |-> 2, links |-> -1,
         opened |-> TRUE, file |-> WriteFile(old, body, wr)]

\* a scraper that takes the first link when the page has several
fetch_xlsx_FirstLink(page, nlinks, dl, wr, old, body) ==
    IF page # "ok" THEN
        [exc |-> page, requests |-> 1, links |-> -1, opened |-> FALSE, file |-> old]
    ELSE IF nlinks = 0 THEN
        [exc |-> "ValueError_no_link", requests |-> 1, links |-> nlinks,
         opened |-> FALSE, file |-> old]
    ELSE IF dl # "ok" THEN
        [exc |-> dl, requests |-> 2, links |-> nlinks, opened |-> FALSE, file |-> old]
    ELSE
        [exc |-> IF wr = "ok" THEN "none" ELSE wr, requests |-> 2, links |-> nlinks,
         opened |-> TRUE, file |-> WriteFile(old, body, wr)]

\* the body shared by fetch_dsmi_inventories and fetch_lead_copper_rule: page
\* request, count of the .xlsx links, download, write
fetch_xlsx(page, nlinks, dl, wr, old, body) ==
    IF page # "ok" THEN
        [exc |-> page, requests |-> 1, links |-> -1, opened |-> FALSE, file |-> old]
    ELSE IF nlinks = 0 THEN
        [exc |-> "ValueError_no_link", requests |-> 1, links |-> nlinks,
         opened |-> FALSE, file |-> old]
    ELSE IF nlinks > 1 THEN
        [exc |-> "ValueError_multiple_links", requests |-> 1, links |-> nlinks,
         opened |-> FALSE, file |-> old]
    ELSE IF dl # "ok" THEN
        [exc |-> dl, requests |-> 2, links |-> nlinks, opened |-> FALSE, file |-> old]
    ELSE
        [exc |-> IF wr = "ok" THEN "none" ELSE wr, requests |-> 2, links |-> nlinks,
         opened |-> TRUE, file |-> WriteFile(old, body, wr)]

fetch_dsmi_inventories(page, nlinks, dl, wr, old, body) ==
    fetch_xlsx(page, nlinks, dl, wr, old, body)

fetch_lead_copper_rule(page, nlinks, dl, wr, old, body) ==
    fetch_xlsx(page, nlinks, dl, wr, old, body)

\* the except clauses of main (fetch_data.py:220, 228, 236)
Caught(k, e) ==
    IF k = "socrata_90th"
    THEN IsRequestException(e) \/ e = "JSONDecodeError"
    ELSE IsRequestException(e) \/ e = "JSONDecodeError" \/ IsValueError(e)

FetchError(k) == [source |-> k, name |-> SOURCE_NAMES[k]]

\* ---- Orchestrator: main() -----------------------------------------------------------
NoState == [kind |-> "unset"]
NoFetch == [source |-> "none"]

Running(p) == pc[p] \notin {"idle", "done", "crashed"}

Ended(p) == pc[p] \in {"done", "crashed"}

Min(a, b) == IF a < b THEN a ELSE b

Init ==
    /\ data = [k \in Sources |-> Absent]
    /\ stateFile = NoStateFile
    /\ backup = NoBackup
    /\ upstream = [k \in Sources |-> 1]
    /\ clock = 0
    /\ pc = [p \in Procs |-> "idle"]
    /\ fetch_errors = [p \in Procs |-> <<>>]
    /\ current_state = [p \in Procs |-> NoState]
    /\ changes = [p \in Procs |-> <<>>]
    /\ exit_code = [p \in Procs |-> -1]
    /\ crash = [p \in Procs |-> "none"]
    /\ pre = [p \in Procs |-> [files |-> [k \in Sources |-> Absent], state |-> NoStateFile]]
    /\ wrote = [p \in Procs |-> {}]
    /\ steps = [p \in Procs |-> <<>>]
    /\ lastFetch = [p \in Procs |-> NoFetch]
    /\ quiet = 0
    /\ envSteps = 0
    /\ faults = 0
    /\ oldBackup = [p \in Procs |-> NoBackup]
    /\ overlap = [p \in Procs |-> FALSE]
    /\ lastEnd = "none"
    /\ dirTouched = FALSE
    /\ pending = {}

\* main, lines 204-210: makedirs, backup_data(), fetch_errors = []
Start(p) ==
    /\ pc[p] = "idle"
    /\ \A q \in Procs \ {p} : ~Ended(q)
    /\ clock < MaxRuns
    /\ clock' = clock + 1
    /\ backup' = backup_data(backup, data, stateFile)
    /\ oldBackup' = [oldBackup EXCEPT ![p] = backup]
    /\ overlap' = [q \in Procs |->
                      IF q = p THEN \E r \in Procs \ {p} : Running(r)
                      ELSE overlap[q] \/ Running(q)]
    /\ pre' = [pre EXCEPT ![p] = [files |-> data, state |-> stateFile]]
    /\ fetch_errors' = [fetch_errors EXCEPT ![p] = <<>>]
    /\ steps' = [steps EXCEPT ![p] = <<"backup">>]
    /\ pc' = [pc EXCEPT ![p] = "fetch_socrata"]
    /\ quiet' = Min(quiet + 1, 2)
    /\ UNCHANGED <<data, stateFile, upstream, envSteps, faults, current_state, changes,
                   exit_code, crash, wrote, lastFetch, lastEnd, dirTouched, pending>>

\* one try/except block of main: the fetch result r for source k
FetchBlock(p, k, r, next) ==
    /\ data' = [data EXCEPT ![k] = r.file]
    /\ wrote' = [wrote EXCEPT ![p] = IF r.opened THEN @ \cup {k} ELSE @]
    /\ steps' = [steps EXCEPT ![p] = Append(@, k)]
    /\ lastFetch' = [lastFetch EXCEPT ![p] =
                        [source |-> k, exc |-> r.exc, requests |-> r.requests,
                         links |-> r.links, opened |-> r.opened]]
    /\ IF r.exc = "none" THEN
            /\ pc' = [pc EXCEPT ![p] = next]
            /\ UNCHANGED <<fetch_errors, crash, exit_code>>
       ELSE IF Caught(k, r.exc) THEN
            /\ fetch_errors' = [fetch_errors EXCEPT ![p] = Append(@, FetchError(k))]
            /\ pc' = [pc EXCEPT ![p] = next]
            /\ UNCHANGED <<crash, exit_code>>
       ELSE
            /\ pc' = [pc EXCEPT ![p] = "crashed"]
            /\ crash' = [crash EXCEPT ![p] = "fetch"]
            /\ exit_code' = [exit_code EXCEPT ![p] = 1]
            /\ UNCHANGED fetch_errors
    /\ IF r.exc = "none" THEN faults' = faults
       ELSE faults < MaxFaults /\ faults' = faults + 1
    /\ oldBackup' = [oldBackup EXCEPT ![p] = NoBackup]
    /\ UNCHANGED <<stateFile, backup, upstream, clock, current_state, changes, pre,
                   quiet, envSteps, overlap, lastEnd, dirTouched, pending>>

\* the outcomes of a step that is reached only when the steps before it
\* succeeded; a step that is not reached has no outcome to choose
Reached(cond, outcomes) == IF cond THEN outcomes ELSE {CHOOSE o \in outcomes : TRUE}

\* main, lines 212-222
FetchSocrata(p) ==
    /\ pc[p] = "fetch_socrata"
    /\ \E count \in JsonOutcomes :
       \E dat \in Reached(count = "ok", JsonOutcomes) :
       \E wr \in Reached(count = "ok" /\ dat = "ok", WriteOutcomes) :
          FetchBlock(p, "socrata_90th",
                     fetch_socrata_api(count, dat, wr, data["socrata_90th"],
                                       upstream["socrata_90th"]),
                     "fetch_dsmi")

\* main, lines 224-230
FetchDsmi(p) ==
    /\ pc[p] = "fetch_dsmi"
    /\ \E page \in NetOutcomes :
       \E nlinks \in Reached(page = "ok", 0..MaxLinks) :
       \E dl \in Reached(page = "ok" /\ nlinks = 1, NetOutcomes) :
       \E wr \in Reached(page = "ok" /\ nlinks = 1 /\ dl = "ok", WriteOutcomes) :
          FetchBlock(p, "dsmi",
                     fetch_dsmi_inventories(page, nlinks, dl, wr, data["dsmi"],
                                            upstream["dsmi"]),
                     "fetch_lslr")

\* main, lines 232-238
FetchLslr(p) ==
    /\ pc[p] = "fetch_lslr"
    /\ \E page \in NetOutcomes :
       \E nlinks \in Reached(page = "ok", 0..MaxLinks) :
       \E dl \in Reached(page = "ok" /\ nlinks = 1, NetOutcomes) :
       \E wr \in Reached(page = "ok" /\ nlinks = 1 /\ dl = "ok", WriteOutcomes) :
          FetchBlock(p, "lslr",
                     fetch_lead_copper_rule(page, nlinks, dl, wr, data["lslr"],
                                            upstream["lslr"]),
                     "fetched")

\* main, lines 240-244: restore_from_backup() when fetch_errors is not empty
Restore(p) ==
    /\ pc[p] = "fetched"
    /\ fetch_errors[p] # <<>>
    /\ data' = restoredFiles(backup, data)
    /\ stateFile' = restoredState(backup, stateFile)
    /\ steps' = [steps EXCEPT ![p] = Append(@, "restore")]
    /\ pc' = [pc EXCEPT ![p] = "detect"]
    /\ lastFetch' = [lastFetch EXCEPT ![p] = NoFetch]
    /\ pending' = {k \in wrote[p] : /\ pre[p].files[k] # Absent
                                     /\ pre[p].files[k] # upstream[k]
                                     /\ pre[p].state.kind = "json"
                                     /\ pre[p].state.sources[k].exists}
    /\ UNCHANGED <<backup, upstream, clock, fetch_errors, current_state, changes,
                   exit_code, crash, pre, wrote, quiet, envSteps, faults, oldBackup,
                   overlap, lastEnd, dirTouched>>

\* main, lines 248-252: detect_data_changes() and the four fields added to its result
Detect(p) ==
    /\ \/ pc[p] = "detect"
       \/ pc[p] = "fetched" /\ fetch_errors[p] = <<>>
    /\ LET prev == load_data_state(stateFile)
           r == detect_data_changes(prev.sources, data, clock)
       IN IF prev.raised THEN
               /\ pc' = [pc EXCEPT ![p] = "crashed"]
               /\ crash' = [crash EXCEPT ![p] = "load"]
               /\ exit_code' = [exit_code EXCEPT ![p] = 1]
               /\ UNCHANGED <<current_state, changes, steps>>
          ELSE
               /\ changes' = [changes EXCEPT ![p] = r.changes]
               /\ current_state' = [current_state EXCEPT ![p] =
                      [kind |-> "json",
                       sources |-> r.current_state.sources,
                       last_check |-> r.current_state.last_check,
                       changes |-> r.changes,
                       changes_count |-> Len(r.changes),
                       fetch_success |-> Len(fetch_errors[p]) = 0,
                       fetch_errors |-> fetch_errors[p]]]
               /\ steps' = [steps EXCEPT ![p] = Append(@, "detect")]
               /\ pc' = [pc EXCEPT ![p] = "save"]
               /\ UNCHANGED <<crash, exit_code>>
    /\ lastFetch' = [lastFetch EXCEPT ![p] = NoFetch]
    /\ UNCHANGED <<data, stateFile, backup, upstream, clock, fetch_errors, pre, wrote,
                   quiet, envSteps, faults, oldBackup, overlap, lastEnd, dirTouched,
                   pending>>

\* main, line 253: save_data_state(current_state), a direct overwrite; OSError
\* is not handled anywhere
Save(p) ==
    /\ pc[p] = "save"
    /\ \E wr \in WriteOutcomes :
          IF wr = "ok" THEN
               /\ stateFile' = current_state[p]
               /\ steps' = [steps EXCEPT ![p] = Append(@, "save")]
               /\ pc' = [pc EXCEPT ![p] = "report"]
               /\ UNCHANGED <<crash, exit_code, faults>>
          ELSE
               /\ faults < MaxFaults
               /\ faults' = faults + 1
               /\ stateFile' = IF wr = "OSError_open" THEN stateFile ELSE CorruptStateFile
               /\ pc' = [pc EXCEPT ![p] = "crashed"]
               /\ crash' = [crash EXCEPT ![p] = "save"]
               /\ exit_code' = [exit_code EXCEPT ![p] = 1]
               /\ UNCHANGED steps
    /\ UNCHANGED <<data, backup, upstream, clock, fetch_errors, current_state, changes,
                   pre, wrote, lastFetch, quiet, envSteps, oldBackup, overlap, lastEnd,
                   dirTouched, pending>>

\* main, lines 255-273: report, clear_backup() when nothing changed and nothing
\* failed, SystemExit(1) when a fetch failed
Finish(p) ==
    /\ pc[p] = "report"
    /\ IF changes[p] = <<>> /\ fetch_errors[p] = <<>>
       THEN /\ backup' = clear_backup(backup)
            /\ steps' = [steps EXCEPT ![p] = Append(@, "clear")]
       ELSE UNCHANGED <<backup, steps>>
    /\ exit_code' = [exit_code EXCEPT ![p] = IF fetch_errors[p] # <<>> THEN 1 ELSE 0]
    /\ pc' = [pc EXCEPT ![p] = "done"]
    /\ UNCHANGED <<data, stateFile, upstream, clock, fetch_errors, current_state,
                   changes, crash, pre, wrote, lastFetch, quiet, envSteps, faults,
                   oldBackup, overlap, lastEnd, dirTouched, pending>>

\* the run got through its three fetch blocks with no FetchError
AllFetched(p) ==
    /\ Len(steps[p]) >= 1 + Len(SourceOrder)
    /\ crash[p] # "fetch"
    /\ fetch_errors[p] = <<>>

\* the process is gone: its locals with it
Exit(p) ==
    /\ pc[p] \in {"done", "crashed"}
    /\ pc' = [pc EXCEPT ![p] = "idle"]
    /\ fetch_errors' = [fetch_errors EXCEPT ![p] = <<>>]
    /\ current_state' = [current_state EXCEPT ![p] = NoState]
    /\ changes' = [changes EXCEPT ![p] = <<>>]
    /\ exit_code' = [exit_code EXCEPT ![p] = -1]
    /\ crash' = [crash EXCEPT ![p] = "none"]
    /\ pre' = [pre EXCEPT ![p] = [files |-> [k \in Sources |-> Absent], state |-> NoStateFile]]
    /\ wrote' = [wrote EXCEPT ![p] = {}]
    /\ steps' = [steps EXCEPT ![p] = <<>>]
    /\ lastFetch' = [lastFetch EXCEPT ![p] = NoFetch]
    /\ overlap' = [overlap EXCEPT ![p] = FALSE]
    /\ lastEnd' = IF pc[p] = "done" THEN "done" ELSE crash[p]
    /\ pending' = IF AllFetched(p) THEN {} ELSE pending
    /\ UNCHANGED <<data, stateFile, backup, upstream, clock, quiet, envSteps, faults,
                   oldBackup, dirTouched>>

\* ---- the environment, between runs ------------------------------------------------
\* the contents a source publishes: each differs from the one before, and an
\* old one can come back
NextVersion(c) == (c % MaxContent) + 1

\* a source publishes new content (a change while a run is in progress is seen
\* by that run either as one before it or as one after it)
UpstreamChange ==
    /\ \A p \in Procs : pc[p] = "idle"
    /\ 0 < clock /\ clock < MaxRuns
    /\ envSteps < MaxEnv
    /\ envSteps' = envSteps + 1
    /\ \E k \in Sources :
          /\ upstream' = [upstream EXCEPT ![k] = NextVersion(@)]
          /\ pending' = pending \ {k}
    /\ quiet' = 0
    /\ UNCHANGED <<data, stateFile, backup, clock, pc, fetch_errors, current_state,
                   changes, exit_code, crash, pre, wrote, steps, lastFetch, faults,
                   oldBackup, overlap, lastEnd, dirTouched>>

\* somebody removes a source file from the dataset directory
EnvDelete ==
    /\ \A p \in Procs : pc[p] = "idle"
    /\ clock < MaxRuns
    /\ envSteps < MaxEnv
    /\ envSteps' = envSteps + 1
    /\ \E k \in Sources :
          /\ data[k] # Absent
          /\ data' = [data EXCEPT ![k] = Absent]
    /\ quiet' = 0
    /\ dirTouched' = TRUE
    /\ UNCHANGED <<stateFile, backup, upstream, clock, pc, fetch_errors, current_state,
                   changes, exit_code, crash, pre, wrote, steps, lastFetch, faults,
                   oldBackup, overlap, lastEnd, pending>>

Run(p) ==
    \/ Start(p)
    \/ FetchSocrata(p)
    \/ FetchDsmi(p)
    \/ FetchLslr(p)
    \/ Restore(p)
    \/ Detect(p)
    \/ Save(p)
    \/ Finish(p)
    \/ Exit(p)

Next ==
    \/ Run(1)
    \/ UpstreamChange
    \/ EnvDelete

Spec == Init /\ [][Next]_vars

\* ---- two invocations of main() at once -------------------------------------------
\* the directory as a first run leaves it: either a clean run (every file
\* fetched, the state persisted, the backup cleared) or one whose last source
\* failed (its file missing, the backup of the empty directory kept); one
\* source may have published since
InitConc ==
    /\ \E failed \in {<<>>, <<SourceOrder[Len(SourceOrder)]>>} :
          /\ data = [k \in Sources |-> IF failed # <<>> /\ k = failed[1] THEN Absent ELSE 1]
          /\ stateFile = [kind |-> "json",
                          sources |-> [k \in Sources |-> SourceRecord(data, k)],
                          last_check |-> 1,
                          changes |-> <<>>,
                          changes_count |-> 0,
                          fetch_success |-> failed = <<>>,
                          fetch_errors |-> [i \in 1..Len(failed) |-> FetchError(failed[i])]]
          /\ backup = IF failed = <<>> THEN NoBackup
                      ELSE backup_data(NoBackup, [k \in Sources |-> Absent], NoStateFile)
    /\ \E k \in Sources, c \in Contents :
          upstream = [[j \in Sources |-> 1] EXCEPT ![k] = c]
    /\ clock = 1
    /\ pc = [p \in Procs |-> "idle"]
    /\ fetch_errors = [p \in Procs |-> <<>>]
    /\ current_state = [p \in Procs |-> NoState]
    /\ changes = [p \in Procs |-> <<>>]
    /\ exit_code = [p \in Procs |-> -1]
    /\ crash = [p \in Procs |-> "none"]
    /\ pre = [p \in Procs |-> [files |-> [k \in Sources |-> Absent], state |-> NoStateFile]]
    /\ wrote = [p \in Procs |-> {}]
    /\ steps = [p \in Procs |-> <<>>]
    /\ lastFetch = [p \in Procs |-> NoFetch]
    /\ quiet = 0
    /\ envSteps = 0
    /\ faults = 0
    /\ oldBackup = [p \in Procs |-> NoBackup]
    /\ overlap = [p \in Procs |-> FALSE]
    /\ lastEnd = "done"
    /\ dirTouched = FALSE
    /\ pending = {}

\* one invocation, from its first line to its last
RunOnce(p) ==
    \/ Start(p)
    \/ FetchSocrata(p)
    \/ FetchDsmi(p)
    \/ FetchLslr(p)
    \/ Restore(p)
    \/ Detect(p)
    \/ Save(p)
    \/ Finish(p)

\* nothing in the script takes a lock, so the steps of the two interleave freely
NextConc ==
    \/ RunOnce(1)
    \/ RunOnce(2)

SpecConc == InitConc /\ [][NextConc]_vars

TypeOK ==
    /\ data \in [Sources -> FileVals]
    /\ upstream \in [Sources -> Contents]
    /\ clock \in 0..MaxRuns
    /\ backup.kind \in {"none", "dir"}
    /\ stateFile.kind \in {"absent", "corrupt", "json"}

\* ---- properties -----------------------------------------------------------------------

Did(p, step) == \E i \in 1..Len(steps[p]) : steps[p][i] = step

Count(seq, x) == Cardinality({i \in 1..Len(seq) : seq[i] = x})

C3_EveryErrorCaught ==
    \A p \in Procs :
        (lastFetch[p].source # "none" /\ lastFetch[p].exc # "none") =>
            /\ pc[p] # "crashed"
            /\ Count(fetch_errors[p], FetchError(lastFetch[p].source)) = 1

\* C4 as stated: every run that ends (other than by a failing save) has persisted
\* its state, with fetch_success, changes_count and fetch_errors consistent.
C4_StateAlwaysPersisted ==
    \A p \in Procs :
        (Ended(p) /\ crash[p] # "save") =>
            /\ stateFile.kind = "json"
            /\ stateFile = current_state[p]
            /\ stateFile.last_check = clock
            /\ stateFile.fetch_success = (stateFile.fetch_errors = <<>>)
            /\ stateFile.changes_count = Len(stateFile.changes)
            /\ stateFile.fetch_errors = fetch_errors[p]

\* C5 as stated: a run exits non-zero exactly when a fetch of it failed, and then
\* only after the restore and the save.
C5_ExitCode ==
    \A p \in Procs :
        (Ended(p) /\ crash[p] # "save") =>
            /\ exit_code[p] # 0 <=> (fetch_errors[p] # <<>> \/ crash[p] = "fetch")
            /\ exit_code[p] # 0 => Did(p, "restore") /\ Did(p, "save")

\* C6 as stated: when a run has ended (other than by a failing save), the backup
\* directory exists exactly if a fetch failed or a change was detected.
C6_BackupDisposition ==
    \A p \in Procs :
        (Ended(p) /\ crash[p] # "save") =>
            (backup.kind = "dir" <=>
                (fetch_errors[p] # <<>> \/ crash[p] = "fetch" \/ changes[p] # <<>>))

\* C7: detect_data_changes has just returned (the state file is still the
\* previous one): a source has one ChangeEvent if the previous state holds a hash
\* for it, its file exists and the hashes differ, and none otherwise; there are
\* no other events.
C7_ChangeDetection ==
    \A p \in Procs :
        pc[p] = "save" =>
            /\ \A k \in Sources :
                  Count(changes[p], ChangeEvent(k)) =
                     IF /\ stateFile.kind = "json"
                        /\ stateFile.sources[k].exists
                        /\ data[k] # Absent
                        /\ stateFile.sources[k].content_hash # get_file_hash(data[k])
                     THEN 1 ELSE 0
            /\ \A i \in 1..Len(changes[p]) : \E k \in Sources : changes[p][i] = ChangeEvent(k)

\* one source changed, one is unchanged, and one has no previous hash
C7_Witness ==
    /\ pc[1] = "save"
    /\ Len(changes[1]) = 1
    /\ stateFile.kind = "json"
    /\ \E k \in Sources :
          /\ stateFile.sources[k].exists
          /\ data[k] # Absent
          /\ stateFile.sources[k].content_hash = get_file_hash(data[k])
    /\ \E k \in Sources : ~stateFile.sources[k].exists /\ data[k] # Absent

\* the run before this one ran to its end and persisted its state
PrevRunCompleted(p) ==
    /\ pre[p].state.kind = "json"
    /\ pre[p].state.last_check = clock - 1

\* C8 as stated, for a first run that ran to its end and a second run whose
\* fetches all succeed: the second of two runs that saw the same upstream
\* content persists changes_count = 0 and leaves no backup, whatever the outcome
\* of the first.
C8_SecondRunQuiet ==
    \A p \in Procs :
        (pc[p] = "done" /\ quiet = 2 /\ fetch_errors[p] = <<>> /\ PrevRunCompleted(p)) =>
            /\ stateFile.changes_count = 0
            /\ backup = NoBackup

\* the run before this one completed, and all its fetches succeeded
PrevRunClean(p) == PrevRunCompleted(p) /\ pre[p].state.fetch_success

\* C8 amended: the same, when the first run completed with all its fetches
\* successful too.
C8_SecondRunQuietAfterCleanRun ==
    \A p \in Procs :
        (pc[p] = "done" /\ quiet = 2 /\ fetch_errors[p] = <<>> /\ PrevRunClean(p)) =>
            /\ stateFile.changes_count = 0
            /\ changes[p] = <<>>
            /\ backup = NoBackup

\* the second run has ended; the first had detected a change and kept its backup
C8_Witness ==
    /\ pc[1] = "done"
    /\ quiet = 2
    /\ fetch_errors[1] = <<>>
    /\ PrevRunClean(1)
    /\ pre[1].state.changes_count > 0

\* C9: a scrape that found no link raised the not-found error, one that found
\* several raised the ambiguous error; in both cases only the page was requested,
\* the target file was not opened and is as it was before the run, and the error
\* was recorded; a file is downloaded and opened only after exactly one link.
C9_ExactlyOneLink ==
    \A p \in Procs :
        lastFetch[p].source \in {"dsmi", "lslr"} =>
            LET f == lastFetch[p] IN
            /\ f.links = 0 => f.exc = "ValueError_no_link"
            /\ f.links > 1 => f.exc = "ValueError_multiple_links"
            /\ (f.links = 0 \/ f.links > 1) =>
                  /\ f.requests = 1
                  /\ ~f.opened
                  /\ data[f.source] = pre[p].files[f.source]
                  /\ Count(fetch_errors[p], FetchError(f.source)) = 1
            /\ (f.requests = 2 \/ f.opened) => f.links = 1
            /\ f.exc = "none" => f.opened /\ data[f.source] = upstream[f.source]

\* a page with two links, for a source whose file existed and is stale
C9_Witness ==
    /\ lastFetch[1].source \in {"dsmi", "lslr"}
    /\ lastFetch[1].links = 2
    /\ pre[1].files[lastFetch[1].source] # Absent
    /\ pre[1].files[lastFetch[1].source] # upstream[lastFetch[1].source]

\* C10 as stated: no run dies of a state file that cannot be read; a run that
\* found one goes on to persist a new state.
C10_LoadFailsSoft ==
    \A p \in Procs :
        /\ crash[p] # "load"
        /\ (pc[p] = "done" /\ pre[p].state.kind = "corrupt") => stateFile.kind = "json"

\* C11: a restore_from_backup step overwrites every entry the backup holds with
\* the backup's content, leaves the entries the backup does not hold as they
\* are, leaves the backup as it is, and changes nothing when there is no backup
C11_RestoreFrame ==
    [][\A p \in Procs :
          (pc[p] = "fetched" /\ pc'[p] = "detect") =>
             /\ backup' = backup
             /\ \A k \in Sources :
                   data'[k] = IF backup.kind = "dir" /\ backup.files[k] # Absent
                              THEN backup.files[k] ELSE data[k]
             /\ stateFile' = IF backup.kind = "dir" /\ backup.state.kind # "absent"
                             THEN backup.state ELSE stateFile
             /\ backup.kind = "none" => (data' = data /\ stateFile' = stateFile)]_vars

\* a restore has just overwritten a freshly fetched file with the backup's
\* older content and left alone a freshly fetched file the backup does not hold
C11_Witness ==
    \E p \in Procs :
       /\ pc[p] = "detect"
       /\ Did(p, "restore")
       /\ backup.kind = "dir"
       /\ \E k \in wrote[p] : backup.files[k] \notin {Absent, upstream[k]} /\ data[k] = backup.files[k]
       /\ \E k \in wrote[p] : backup.files[k] = Absent /\ data[k] = upstream[k]

\* a restore has just run with no backup directory in place
C11_NoBackupCase ==
    \E p \in Procs : pc[p] = "detect" /\ Did(p, "restore") /\ backup.kind = "none"

\* C12: right after backup_data returns, the backup is exactly the dataset
\* directory of that moment (source files and data-state.json): nothing of an
\* earlier backup is left in it, not even an entry the directory has lost since
C12_OneGeneration ==
    \A p \in Procs :
       pc[p] = "fetch_socrata" =>
          /\ backup.kind = "dir"
          /\ backup.files = data
          /\ backup.state = stateFile
          /\ \A k \in Sources : data[k] = Absent => backup.files[k] = Absent

\* backup_data has just replaced a backup that held a file the directory has
\* lost since
C12_Witness ==
    \E p \in Procs :
       /\ pc[p] = "fetch_socrata"
       /\ oldBackup[p].kind = "dir"
       /\ \E k \in Sources :
             /\ oldBackup[p].files[k] # Absent
             /\ data[k] = Absent
             /\ backup.files[k] = Absent

IsPrefix(s, t) == Len(s) <= Len(t) /\ \A i \in 1..Len(s) : s[i] = t[i]

\* the step sequences of main() from its first line to its last
FullRuns ==
    {<<"backup">> \o SourceOrder \o r \o <<"detect", "save">> \o c :
        r \in {<<>>, <<"restore">>}, c \in {<<>>, <<"clear">>}}

\* the steps a run has performed are in the order of main(): the backup first,
\* then the sources in their fixed order and none twice, a restore only after
\* the third fetch and before the hashes are taken, a clear only after the save
C13_StepsInOrder ==
    \A p \in Procs :
       /\ \E full \in FullRuns : IsPrefix(steps[p], full)
       /\ wrote[p] # {} => steps[p][1] = "backup"
       /\ Did(p, "restore") => fetch_errors[p] # <<>>

\* C13: within one run the backup is complete before any source file is
\* written; the three sources are attempted in the order socrata_90th, dsmi,
\* lslr, each exactly once; a restore comes after the three attempts and before
\* the hashes are computed; a clear comes after the state is persisted
C13_Ordering ==
    \A p \in Procs :
       /\ \E full \in FullRuns : IsPrefix(steps[p], full)
       /\ wrote[p] # {} => steps[p][1] = "backup"
       /\ Ended(p) => \A k \in Sources : Count(steps[p], k) = 1

\* C14: the sources map of a persisted state has exactly the configured source
\* keys, and a record carries content_hash and file exactly when its exists
\* flag is true
C14_StateShape ==
    stateFile.kind = "json" =>
       /\ DOMAIN stateFile.sources = Sources
       /\ \A k \in Sources :
             LET rec == stateFile.sources[k]
             IN /\ "exists" \in DOMAIN rec
                /\ rec.exists <=> "content_hash" \in DOMAIN rec
                /\ rec.exists <=> "file" \in DOMAIN rec
                /\ rec.exists => rec.file = DATA_FILES[k]

\* a run has persisted a state with a record for a missing file next to a
\* record for an existing one
C14_Witness ==
    \E p \in Procs :
       /\ pc[p] = "report"
       /\ stateFile = current_state[p]
       /\ \E k \in Sources : ~stateFile.sources[k].exists
       /\ \E k \in Sources : stateFile.sources[k].exists

\* the rollback rule for run p: if it recorded a FetchError, every source file
\* that existed before it has its pre-run contents
RollbackHolds(p) ==
    fetch_errors[p] # <<>> =>
       \A k \in Sources : pre[p].files[k] # Absent => data[k] = pre[p].files[k]

\* the backup-disposition rule for run p: the backup is kept exactly if the run
\* recorded a FetchError or detected a change
DispositionHolds(p) ==
    backup.kind = "dir" <=> (fetch_errors[p] # <<>> \/ changes[p] # <<>>)

\* C15: with two runs interleaved, both rules hold at the end of a run that no
\* other run overlapped, and there is an interleaving of two overlapping runs
\* after which one of them is violated (C15_Witness, C15_DispositionRace)
C15_RulesHoldWithoutOverlap ==
    \A p \in Procs :
       (pc[p] = "done" /\ ~overlap[p]) => RollbackHolds(p) /\ DispositionHolds(p)

\* both runs have ended, and a file that existed before the failed run p is not
\* what it was: the other run's backup captured it as p's fetch had written it,
\* and the restore put that back
C15_Witness ==
    \E p \in Procs :
       /\ \A q \in Procs : Ended(q)
       /\ pc[p] = "done"
       /\ overlap[p]
       /\ ~RollbackHolds(p)
       /\ \E k \in wrote[p] :
             /\ pre[p].files[k] \notin {Absent, data[k]}
             /\ backup.kind = "dir"
             /\ backup.files[k] = data[k]

\* both runs have ended, and the failed run p finds its backup cleared by the
\* other run
C15_DispositionRace ==
    \E p \in Procs :
       /\ \A q \in Procs : Ended(q)
       /\ pc[p] = "done"
       /\ fetch_errors[p] # <<>>
       /\ backup.kind = "none"

\* C16: from the moment a run has persisted its state until it ends, every
\* record of the persisted state agrees with the dataset directory: exists is
\* true exactly if the file exists, and content_hash is the hash of the file as
\* it is now, after any restore; for a file that was fetched and rolled back it
\* is not the hash of the fetched content
C16_StateMatchesDisk ==
    \A p \in Procs :
       pc[p] \in {"report", "done"} =>
          /\ stateFile.kind = "json"
          /\ \A k \in Sources :
                LET rec == stateFile.sources[k]
                IN /\ rec.exists <=> data[k] # Absent
                   /\ rec.exists => rec.content_hash = get_file_hash(data[k])
                   /\ (/\ fetch_errors[p] # <<>>
                       /\ k \in wrote[p]
                       /\ pre[p].files[k] \notin {Absent, upstream[k]})
                      => rec.content_hash # get_file_hash(upstream[k])

\* a failed run has ended after fetching new content for a file that existed
\* and rolling it back; the persisted hash is that of the old content
C16_Witness ==
    \E p \in Procs :
       /\ pc[p] = "done"
       /\ fetch_errors[p] # <<>>
       /\ \E k \in wrote[p] :
             /\ pre[p].files[k] \in Contents \ {upstream[k]}
             /\ stateFile.sources[k].content_hash = get_file_hash(pre[p].files[k])

\* the state file run p found agrees with the directory it found: one record
\* per source, exists exactly for the files there, with the hash of each
DirAsRecorded(p) ==
    /\ pre[p].state.kind = "json"
    /\ \A k \in Sources :
          LET rec == pre[p].state.sources[k]
          IN /\ rec.exists <=> pre[p].files[k] # Absent
             /\ rec.exists => rec.content_hash = get_file_hash(pre[p].files[k])

\* C17 as stated, for the runs that follow a run which completed or was
\* killed in save_data_state: with no state file or one left by a completed
\* run, and the directory never changed from outside the pipeline, a run that
\* recorded a FetchError persists changes_count = 0 and no ChangeEvent
C17_FailedRunReportsNoChange ==
    \A p \in Procs :
       (/\ pc[p] \in {"report", "done"}
        /\ fetch_errors[p] # <<>>
        /\ pre[p].state.kind \in {"absent", "json"}
        /\ ~dirTouched
        /\ lastEnd \in {"none", "done", "save"})
       => stateFile.changes_count = 0 /\ stateFile.changes = <<>>

\* C17 amended: with no state file, or one whose records agree with the dataset
\* directory as the run finds it, a run that recorded a FetchError persists
\* changes_count = 0, no ChangeEvent and fetch_success = FALSE
C17_NoChangeWhenDirAsRecorded ==
    \A p \in Procs :
       (/\ pc[p] \in {"report", "done"}
        /\ fetch_errors[p] # <<>>
        /\ pre[p].state.kind = "absent" \/ DirAsRecorded(p))
       => /\ stateFile.changes_count = 0
          /\ stateFile.changes = <<>>
          /\ ~stateFile.fetch_success

\* a failed run that found state and directory in agreement has persisted its
\* state after fetching new content for a tracked file and rolling it back
C17_Witness ==
    \E p \in Procs :
       /\ pc[p] = "report"
       /\ fetch_errors[p] # <<>>
       /\ DirAsRecorded(p)
       /\ \E k \in wrote[p] : pre[p].files[k] \in Contents \ {upstream[k]}
       /\ stateFile.changes_count = 0

Emitted(p, k) == \E i \in 1..Len(changes[p]) : changes[p][i] = ChangeEvent(k)

\* C18: a tracked source published new content, the run that fetched it was
\* rolled back because another source failed, and the content is still the one
\* published: the next run whose three fetches all succeed emits a ChangeEvent
\* for that source
C18_NoChangeLost ==
    \A p \in Procs :
       (Ended(p) /\ AllFetched(p)) => \A k \in pending : Emitted(p, k)

\* the same for a run that starts from the state the rolled-back run persisted:
\* it gets through load_data_state and emits the event
C18_EmittedFromPersistedState ==
    \A p \in Procs :
       (/\ pc[p] \in {"save", "report", "done"}
        /\ fetch_errors[p] = <<>>
        /\ PrevRunCompleted(p)
        /\ ~pre[p].state.fetch_success)
       => \A k \in pending : Emitted(p, k)

\* a clean run has emitted the event for a change that the run before it
\* rolled back
C18_RecoveredChange ==
    \E p \in Procs :
       /\ pc[p] = "done"
       /\ fetch_errors[p] = <<>>
       /\ PrevRunCompleted(p)
       /\ \E k \in pending : Emitted(p, k)

Recorded(p, k) == \E i \in 1..Len(fetch_errors[p]) : fetch_errors[p][i] = FetchError(k)

\* C19: a fetch that ended in a recorded FetchError did not open its target
\* file, and a fetch opens it only after both of its requests (and the link
\* check) succeeded; so until the restore the file of every source with a
\* recorded FetchError has the contents it had before the run
C19_FailedFetchLeavesFile ==
    \A p \in Procs :
       /\ (lastFetch[p].source # "none" /\ lastFetch[p].opened) =>
             /\ lastFetch[p].requests = 2
             /\ lastFetch[p].source # "socrata_90th" => lastFetch[p].links = 1
             /\ ~Caught(lastFetch[p].source, lastFetch[p].exc)
       /\ (Running(p) /\ ~Did(p, "restore")) =>
             \A k \in Sources :
                Recorded(p, k) => (k \notin wrote[p] /\ data[k] = pre[p].files[k])

\* a fetch has just failed at its second request, after the first succeeded,
\* for a source whose file existed: the FetchError is recorded, no restore has
\* run yet
C19_Witness ==
    \E p \in Procs :
       /\ Running(p)
       /\ ~Did(p, "restore")
       /\ lastFetch[p].source # "none"
       /\ lastFetch[p].requests = 2
       /\ Recorded(p, lastFetch[p].source)
       /\ pre[p].files[lastFetch[p].source] \in Contents
       /\ data[lastFetch[p].source] = pre[p].files[lastFetch[p].source]
====
